---- MODULE Spec2Model ----
(***************************************************************************)
(* markd: a single-process HTTP server that serves markdown documents as   *)
(* sanitised, templated HTML with a content-addressed page cache           *)
(* (src/server.js).  The file holds two variants of the server: the        *)
(* hardened one (lines 1-223) and the legacy one (lines 225-390).          *)
(*                                                                         *)
(* Strings of the program are sequences of one-character strings, so that  *)
(* splitting, percent-decoding, normalising and prefix tests are computed  *)
(* character by character as the JavaScript does.  Paths follow the POSIX  *)
(* implementation of node's path module.                                   *)
(***************************************************************************)
EXTENDS Integers, Sequences, FiniteSets, TLC

(***************************************************************************)
(* Generic string helpers                                                  *)
(***************************************************************************)
SetMin(S) == CHOOSE x \in S : \A y \in S : x <= y

\* String.prototype.startsWith
StartsWith(s, p) == Len(s) >= Len(p) /\ SubSeq(s, 1, Len(p)) = p

\* String.prototype.endsWith
EndsWith(s, p) == Len(s) >= Len(p) /\ SubSeq(s, Len(s) - Len(p) + 1, Len(s)) = p

\* s.split(c)[0]: the part of s before the first occurrence of character c
SplitFirst(s, c) ==
    LET at == {i \in 1..Len(s) : s[i] = c}
    IN  IF at = {} THEN s ELSE SubSeq(s, 1, SetMin(at) - 1)

\* s.split("/"): the segments of s, empty ones included
RECURSIVE SplitSlash(_)
SplitSlash(s) ==
    LET at == {i \in 1..Len(s) : s[i] = "/"}
    IN  IF at = {} THEN <<s>>
        ELSE <<SubSeq(s, 1, SetMin(at) - 1)>>
             \o SplitSlash(SubSeq(s, SetMin(at) + 1, Len(s)))

\* segs.join("/")
RECURSIVE JoinSlash(_)
JoinSlash(segs) ==
    IF segs = <<>> THEN <<>>
    ELSE IF Len(segs) = 1 THEN segs[1]
    ELSE segs[1] \o <<"/">> \o JoinSlash(Tail(segs))

\* whether character c occurs in s
HasChar(s, c) == \E i \in 1..Len(s) : s[i] = c

\* whether the substring p occurs in s
HasSub(s, p) == \E i \in 1..(Len(s) - Len(p) + 1) : SubSeq(s, i, i + Len(p) - 1) = p

(***************************************************************************)
(* Values of the program                                                   *)
(***************************************************************************)
\* JavaScript null, as returned by sanitiseUrl and routeToFile
Null == <<"<null>">>

\* no step of a render throws
NoFault == "none"

\* the URIError thrown by decodeURIComponent
URIError == <<"<URIError>">>

\* __dirname: the directory of server.js
DirName == <<"/", "s", "r", "v">>

\* pagesDir = path.join(__dirname, "pages")
pagesDir == DirName \o <<"/", "p", "a", "g", "e", "s">>

\* path.join(__dirname, "nav.md")
navFile == DirName \o <<"/", "n", "a", "v", ".", "m", "d">>

DotMd == <<".", "m", "d">>
IndexName == <<"i", "n", "d", "e", "x">>
DotDot == <<".", ".">>

(***************************************************************************)
(* decodeURIComponent                                                      *)
(***************************************************************************)
Ascii ==
   <<
      "<00>", "<01>", "<02>", "<03>", "<04>", "<05>", "<06>", "<07>", "<08>", "<09>", "<0a>", "<0b>", "<0c>", "<0d>", "<0e>", "<0f>",
      "<10>", "<11>", "<12>", "<13>", "<14>", "<15>", "<16>", "<17>", "<18>", "<19>", "<1a>", "<1b>", "<1c>", "<1d>", "<1e>", "<1f>",
      " ", "!", "<22>", "#", "$", "%", "&", "'", "(", ")", "*", "+", ",", "-", ".", "/",
      "0", "1", "2", "3", "4", "5", "6", "7", "8", "9", ":", ";", "<", "=", ">", "?",
      "@", "A", "B", "C", "D", "E", "F", "G", "H", "I", "J", "K", "L", "M", "N", "O",
      "P", "Q", "R", "S", "T", "U", "V", "W", "X", "Y", "Z", "[", "<5c>", "]", "^", "_",
      "<60>", "a", "b", "c", "d", "e", "f", "g", "h", "i", "j", "k", "l", "m", "n", "o",
      "p", "q", "r", "s", "t", "u", "v", "w", "x", "y", "z", "{", "|", "}", "~", "<7f>" >>

HexDigits ==
    <<"0", "1", "2", "3", "4", "5", "6", "7", "8", "9", "a", "b", "c", "d", "e", "f">>

HexUpper == <<"0", "1", "2", "3", "4", "5", "6", "7", "8", "9", "A", "B", "C", "D", "E", "F">>

IsHex(c) == \E i \in 1..Len(HexDigits) : HexDigits[i] = c \/ HexUpper[i] = c

HexVal(c) == (CHOOSE i \in 1..Len(HexDigits) : HexDigits[i] = c \/ HexUpper[i] = c) - 1

\* whether s holds an escape %hh at position i
IsEscape(s, i) == i + 2 <= Len(s) /\ s[i] = "%" /\ IsHex(s[i + 1]) /\ IsHex(s[i + 2])

EscapeByte(s, i) == 16 * HexVal(s[i + 1]) + HexVal(s[i + 2])

\* number of continuation bytes a UTF-8 lead byte announces, -1 for no lead byte
Continuations(b) ==
    IF b >= 194 /\ b <= 223 THEN 1
    ELSE IF b >= 224 /\ b <= 239 THEN 2
    ELSE IF b >= 240 /\ b <= 244 THEN 3
    ELSE -1

\* whether the n escapes from position i on are UTF-8 continuation bytes
IsContinuation(s, i, n) ==
    \A k \in 0..(n - 1) :
        /\ IsEscape(s, i + 3 * k)
        /\ EscapeByte(s, i + 3 * k) >= 128
        /\ EscapeByte(s, i + 3 * k) <= 191

\* the decoding of s from position i on, appended to acc; URIError when an
\* escape is malformed.  A character outside ASCII is decoded to "<u>".
RECURSIVE DecodeFrom(_, _, _)
DecodeFrom(s, i, acc) ==
    IF i > Len(s) THEN acc
    ELSE IF s[i] # "%" THEN DecodeFrom(s, i + 1, Append(acc, s[i]))
    ELSE IF ~IsEscape(s, i) THEN URIError
    ELSE LET b == EscapeByte(s, i)
             n == Continuations(b)
         IN  IF b < 128
                 THEN DecodeFrom(s, i + 3, Append(acc, Ascii[b + 1]))
             ELSE IF n > 0 /\ IsContinuation(s, i + 3, n)
                 THEN DecodeFrom(s, i + 3 * (n + 1), Append(acc, "<u>"))
             ELSE URIError

decodeURIComponent(s) == DecodeFrom(s, 1, <<>>)

(***************************************************************************)
(* node path (POSIX)                                                       *)
(***************************************************************************)
\* normalizeString: resolves "." and ".." segments and drops empty ones
RECURSIVE normalizeString(_, _, _)
normalizeString(segs, res, allowAboveRoot) ==
    IF segs = <<>> THEN res
    ELSE LET s == Head(segs)
             rest == Tail(segs)
         IN  IF s = <<>> \/ s = <<".">>
                 THEN normalizeString(rest, res, allowAboveRoot)
             ELSE IF s = DotDot
                 THEN IF res # <<>> /\ res[Len(res)] # DotDot
                          THEN normalizeString(rest, SubSeq(res, 1, Len(res) - 1), allowAboveRoot)
                      ELSE IF allowAboveRoot
                          THEN normalizeString(rest, Append(res, s), allowAboveRoot)
                      ELSE normalizeString(rest, res, allowAboveRoot)
             ELSE normalizeString(rest, Append(res, s), allowAboveRoot)

\* path.isAbsolute
isAbsolute(p) == Len(p) > 0 /\ p[1] = "/"

\* the end of path.posix.normalize: body is the normalised path without its
\* leading and trailing separator
NormalizeEnd(abs, trailing, body) ==
    IF body = <<>>
        THEN IF abs THEN <<"/">>
             ELSE IF trailing THEN <<".", "/">> ELSE <<".">>
    ELSE (IF abs THEN <<"/">> ELSE <<>>) \o body \o (IF trailing THEN <<"/">> ELSE <<>>)

\* path.posix.normalize
normalize(p) ==
    IF p = <<>> THEN <<".">>
    ELSE NormalizeEnd(isAbsolute(p), p[Len(p)] = "/",
                      JoinSlash(normalizeString(SplitSlash(p), <<>>, ~isAbsolute(p))))

\* path.join(a, b) for a non-empty a
join(a, b) == IF b = <<>> THEN normalize(a) ELSE normalize(a \o <<"/">> \o b)

\* path.resolve(a, b) for an absolute a: b wins when it is absolute
resolve(a, b) ==
    <<"/">> \o JoinSlash(normalizeString(
        SplitSlash(IF b = <<>> THEN a ELSE IF isAbsolute(b) THEN b ELSE a \o <<"/">> \o b),
        <<>>, FALSE))

\* length of the longest common prefix of two segment lists
RECURSIVE CommonLen(_, _)
CommonLen(a, b) ==
    IF a = <<>> \/ b = <<>> \/ Head(a) # Head(b) THEN 0
    ELSE 1 + CommonLen(Tail(a), Tail(b))

\* the relative path from the segments f to the segments t, which share their
\* first k segments
RelativeSegs(f, t, k) ==
    JoinSlash([i \in 1..(Len(f) - k) |-> DotDot] \o SubSeq(t, k + 1, Len(t)))

RelativeOf(f, t) == RelativeSegs(f, t, CommonLen(f, t))

\* path.relative(from, to) for absolute from and to
relative(from, to) ==
    RelativeOf(normalizeString(SplitSlash(from), <<>>, FALSE),
               normalizeString(SplitSlash(to), <<>>, FALSE))

PrefixSegs(d, q) == Len(q) > Len(d) /\ SubSeq(q, 1, Len(d)) = d

\* whether the absolute path p is a proper descendant of the directory dir
IsDescendant(dir, p) ==
    PrefixSegs(normalizeString(SplitSlash(dir), <<>>, FALSE),
               normalizeString(SplitSlash(p), <<>>, FALSE))

(***************************************************************************)
(* sanitiseUrl (both variants hold the same code)                          *)
(***************************************************************************)
\* if (!clean.startsWith("/")) clean = "/" + clean
LeadSlash(clean) == IF ~StartsWith(clean, <<"/">>) THEN <<"/">> \o clean ELSE clean

\* sanitiseUrl that leaves a trailing "/" where it is
StripSlashNever(clean) == clean

\* if (clean.endsWith("/") && clean !== "/") clean = clean.slice(0, -1)
StripSlash(clean) ==
    IF EndsWith(clean, <<"/">>) /\ clean # <<"/">>
    THEN SubSeq(clean, 1, Len(clean) - 1) ELSE clean

\* if (clean === "") clean = "/"
EmptyToRoot(clean) == IF clean = <<>> THEN <<"/">> ELSE clean

\* everything after the decoding
Canonical(decoded) == EmptyToRoot(StripSlash(LeadSlash(normalize(decoded))))

\* the try/catch around decodeURIComponent
AfterDecode(decoded) == IF decoded = URIError THEN Null ELSE Canonical(decoded)

\* sanitiseUrl with the normalisation before the decoding
DecodedLate(decoded) ==
    IF decoded = URIError THEN Null ELSE EmptyToRoot(StripSlash(LeadSlash(decoded)))

sanitiseUrlNormalizeFirst(urlPath) ==
    DecodedLate(decodeURIComponent(normalize(SplitFirst(SplitFirst(urlPath, "?"), "#"))))

sanitiseUrl(urlPath) ==
    AfterDecode(decodeURIComponent(SplitFirst(SplitFirst(urlPath, "?"), "#")))

(***************************************************************************)
(* routeToFile                                                             *)
(***************************************************************************)
\* the document name of a canonical path
DocName(cleanPath) == IF cleanPath = <<"/">> THEN IndexName ELSE Tail(cleanPath)

\* hardened: path.resolve, then the guard on path.relative
Candidate(cleanPath) == resolve(pagesDir, DocName(cleanPath) \o DotMd)

\* if (relative.startsWith("..") || path.isAbsolute(relative)) return null
EscapeGuard(candidate, rel) ==
    IF StartsWith(rel, DotDot) \/ isAbsolute(rel) THEN Null ELSE candidate

GuardCandidate(candidate) == EscapeGuard(candidate, relative(pagesDir, candidate))

\* routeToFile without its escape guard
routeToFileUnguarded(cleanPath) == Candidate(cleanPath)

routeToFileHardened(cleanPath) == GuardCandidate(Candidate(cleanPath))

\* if (!file.startsWith(pagesDir)) return null
PrefixGuard(file) == IF ~StartsWith(file, pagesDir) THEN Null ELSE file

\* legacy: path.join, then the guard on the string prefix
routeToFileLegacy(cleanPath) == PrefixGuard(join(pagesDir, DocName(cleanPath) \o DotMd))

\* routeToFile with the string-prefix guard in both variants
routeToFilePrefixOnly(v, cleanPath) == routeToFileLegacy(cleanPath)

routeToFile(v, cleanPath) ==
    IF v = "hardened" THEN routeToFileHardened(cleanPath) ELSE routeToFileLegacy(cleanPath)

(***************************************************************************)
(* The file system and the documents on it                                 *)
(***************************************************************************)
\* what a path holds when it is no file: nothing, or a directory
Absent == "<absent>"
IsDir == "<directory>"

\* markdown sources
MdHi == "# Hi"
MdHiNl == "# Hi<LF>"
MdScript == "<script>x</script>"
MdNav == "[x](/x)"
MdSecret == "secret"
\* a document that holds a dollar sign and an ampersand
MdDollar == "$&"

Docs == {MdHi, MdHiNl, MdScript}

IndexFile == pagesDir \o <<"/">> \o IndexName \o DotMd
XFile == pagesDir \o <<"/", "x">> \o DotMd
\* a file next to the content root, and one in a sibling directory whose name
\* starts with the name of the content root
OutsideFile == DirName \o <<"/", "x">> \o DotMd
SiblingFile == pagesDir \o <<"-", "e", "v", "i", "l", "/", "x">> \o DotMd

PageFiles == {IndexFile, XFile}
FixedFiles == {OutsideFile, SiblingFile}

\* what path p holds in the file system files
FileAt(files, p) ==
    IF p \in DOMAIN files THEN files[p]
    ELSE IF p \in FixedFiles THEN MdSecret
    ELSE Absent

\* fs.existsSync
existsSync(files, p) == FileAt(files, p) # Absent

\* whether fs.readFileSync(p, "utf8") throws (ENOENT, EISDIR)
ReadThrows(files, p) == FileAt(files, p) \in {Absent, IsDir}

(***************************************************************************)
(* hashContent, marked.parse, sanitizeHtml                                 *)
(***************************************************************************)
\* SHA-256 as a collision-free digest: the digest names its input
hashContent(content) == <<"sha256", content>>

\* the quoted ETag `"${hash}"`
Quote(h) == <<"quoted", h>>

\* what marked.parse gives for MdDollar: the ampersand is escaped
HtmlDollar == "<p>$&amp;</p><LF>"

\* marked.parse on the documents of the model
marked(md) ==
    CASE md = MdHi -> "<h1>Hi</h1><LF>"
      [] md = MdHiNl -> "<h1>Hi</h1><LF>"
      [] md = MdScript -> "<script>x</script>"
      [] md = MdNav -> "<p><a href=/x>x</a></p><LF>"
      [] md = MdSecret -> "<p>secret</p><LF>"
      [] md = MdDollar -> HtmlDollar

\* sanitizeHtml with the allow-lists of the code: a script element is dropped
\* with its content, the other outputs of the model hold allowed tags only
sanitizeHtml(rawHtml) == IF rawHtml = "<script>x</script>" THEN "" ELSE rawHtml

(***************************************************************************)
(* renderTemplate and buildNav                                             *)
(***************************************************************************)
SITE_NAME == "My Web Site"
AUTHOR == "Chris Northcott"
COPYDATE == "<year>"

Lit(s) == <<"lit", s>>
Tok(s) == <<"tok", s>>
Text(s) == <<"text", s>>

\* template.html as read at startup: literal text and placeholder tokens
template ==
    << Lit("<title>"), Tok("{{title}}"), Lit(" - "), Tok("{{site}}"), Lit("</title>"),
       Tok("{{nav}}"), Lit("<h1>"), Tok("{{title}}"), Lit("</h1>"), Tok("{{content}}"),
       Tok("{{author}}"), Tok("{{copydate}}") >>

\* a replacement string is read as a sequence of pieces: plain text, and the
\* patterns $$, $&, $<60> (dollar, backtick) and $' that replace and
\* replaceAll expand
Str(x) == <<"str", x>>
Pat(p) == <<"pat", p>>
Dollar == "$"
Patterns == {"$", "&", "<60>", "'"}
PatternAt(c) ==
    CASE c = "$" -> "$$"
      [] c = "&" -> "$&"
      [] c = "<60>" -> "$<60>"
      [] c = "'" -> "$'"

\* the pieces of a replacement string given as text that the model does not
\* look into: the converter's output for the document MdDollar holds a pattern
Pieces(value) ==
    IF value = HtmlDollar
    THEN <<Str("<p>"), Pat("$&"), Str("amp;</p><LF>")>>
    ELSE <<Str(value)>>

\* the pieces of a page title, which is a string of characters: run is the
\* plain text gathered since the last pattern
RECURSIVE TitleFrom(_, _, _)
TitleFrom(chars, i, run) ==
    IF i > Len(chars) THEN (IF run = <<>> THEN <<>> ELSE <<Str(run)>>)
    ELSE IF chars[i] = Dollar /\ i < Len(chars) /\ chars[i + 1] \in Patterns
    THEN (IF run = <<>> THEN <<>> ELSE <<Str(run)>>)
             \o <<Pat(PatternAt(chars[i + 1]))>> \o TitleFrom(chars, i + 2, <<>>)
    ELSE TitleFrom(chars, i + 1, Append(run, chars[i]))

TitlePieces(title) == IF title = <<>> THEN <<Str(title)>> ELSE TitleFrom(title, 1, <<>>)

\* GetSubstitution: what one piece of the replacement string becomes for the
\* match at position i of parts
Expansion(piece, parts, i) ==
    IF piece[1] = "str" THEN <<Text(piece[2])>>
    ELSE CASE piece[2] = "$$" -> <<Text(Dollar)>>
           [] piece[2] = "$&" -> <<parts[i]>>
           [] piece[2] = "$<60>" -> SubSeq(parts, 1, i - 1)
           [] piece[2] = "$'" -> SubSeq(parts, i + 1, Len(parts))

RECURSIVE GetSubstitution(_, _, _, _)
GetSubstitution(pieces, k, parts, i) ==
    IF k > Len(pieces) THEN <<>>
    ELSE Expansion(pieces[k], parts, i) \o GetSubstitution(pieces, k + 1, parts, i)

\* String.prototype.replaceAll(token, value): every match in the string as it
\* was before the call
RECURSIVE ReplaceAllFrom(_, _, _, _)
ReplaceAllFrom(parts, i, token, pieces) ==
    IF i > Len(parts) THEN <<>>
    ELSE (IF parts[i] = Tok(token) THEN GetSubstitution(pieces, 1, parts, i)
          ELSE <<parts[i]>>)
             \o ReplaceAllFrom(parts, i + 1, token, pieces)

replaceAll(parts, token, pieces) == ReplaceAllFrom(parts, 1, token, pieces)

\* String.prototype.replace(token, value): the first occurrence only
ReplaceAt(parts, at, pieces) ==
    IF at = {} THEN parts
    ELSE SubSeq(parts, 1, SetMin(at) - 1) \o GetSubstitution(pieces, 1, parts, SetMin(at))
             \o SubSeq(parts, SetMin(at) + 1, Len(parts))

replace(parts, token, pieces) ==
    ReplaceAt(parts, {i \in 1..Len(parts) : parts[i] = Tok(token)}, pieces)

\* buildNav: "" without nav.md or when reading it fails
buildNav(files) ==
    IF ~existsSync(files, navFile) THEN ""
    ELSE IF ReadThrows(files, navFile) THEN ""
    ELSE sanitizeHtml(marked(FileAt(files, navFile)))

\* renderTemplate without the substitution of {{nav}}
renderTemplateNoNav(title, content, files) ==
    replaceAll(replaceAll(replaceAll(replaceAll(replaceAll(template,
        "{{site}}", Pieces(SITE_NAME)), "{{author}}", Pieces(AUTHOR)),
        "{{copydate}}", Pieces(COPYDATE)), "{{title}}", TitlePieces(title)),
        "{{content}}", Pieces(content))

\* the six substitutions of the hardened renderTemplate on the template tpl
RenderHardened(tpl, title, content, nav) ==
    replaceAll(replaceAll(replaceAll(replaceAll(replaceAll(replaceAll(tpl,
        "{{site}}", Pieces(SITE_NAME)), "{{author}}", Pieces(AUTHOR)),
        "{{copydate}}", Pieces(COPYDATE)), "{{title}}", TitlePieces(title)),
        "{{nav}}", Pieces(nav)), "{{content}}", Pieces(content))

\* the five substitutions of the legacy renderTemplate on the template tpl
RenderLegacy(tpl, title, content) ==
    replace(replace(replace(replace(replace(tpl,
        "{{site}}", Pieces(SITE_NAME)), "{{author}}", Pieces(AUTHOR)),
        "{{copydate}}", Pieces(COPYDATE)), "{{title}}", TitlePieces(title)),
        "{{content}}", Pieces(content))

renderTemplateHardened(title, content, files) ==
    RenderHardened(template, title, content, buildNav(files))

renderTemplateLegacy(title, content) == RenderLegacy(template, title, content)

renderTemplate(v, title, content, files) ==
    IF v = "hardened" THEN renderTemplateHardened(title, content, files)
    ELSE renderTemplateLegacy(title, content)

(***************************************************************************)
(* buildPage                                                               *)
(***************************************************************************)
\* JavaScript undefined: a missing header, a missing etag field
Undefined == <<"<undefined>">>

NoPage == [hash |-> Undefined, html |-> <<>>, etag |-> Undefined]
NoMd == "<none>"
EmptyCache == [r \in {} |-> NoPage]

\* the steps of a render, in the order of the code
RenderSteps(v) ==
    IF v = "hardened" THEN <<"marked", "sanitize", "template">> ELSE <<"marked", "template">>

\* the steps run when step f throws: those up to and including f
StepsUpTo(steps, f) ==
    SubSeq(steps, 1, SetMin({i \in 1..Len(steps) : steps[i] = f}))

InSeq(steps, f) == \E i \in 1..Len(steps) : steps[i] = f

\* an entry whose ETag is the hash of the source, not of the page
PageEntryEtagOfSource(v, md, fullHtml) ==
    [hash |-> hashContent(md),
     html |-> fullHtml,
     etag |-> IF v = "hardened" THEN Quote(hashContent(<<Text(md)>>)) ELSE Undefined]

\* the object buildPage stores: the hardened one carries the ETag of the page
PageEntry(v, md, fullHtml) ==
    [hash |-> hashContent(md),
     html |-> fullHtml,
     etag |-> IF v = "hardened" THEN Quote(hashContent(fullHtml)) ELSE Undefined]

\* the body of the page: the hardened variant sanitises the converter's output
HtmlOf(v, md) == IF v = "hardened" THEN sanitizeHtml(marked(md)) ELSE marked(md)

\* the cache entry a render of md stores for route
RenderPage(v, route, md, files) ==
    PageEntry(v, md,
              renderTemplate(v, IF route = <<"/">> THEN IndexName ELSE Tail(route),
                             HtmlOf(v, md), files))

\* a lookup that takes any entry of the route, whatever its hash
CacheHitAnyHash(cache, route, contentHash) == route \in DOMAIN cache

\* a lookup that compares the source hash with the entry's etag field
CacheHitEtagField(cache, route, contentHash) ==
    route \in DOMAIN cache /\ cache[route].etag = contentHash

\* pageCache.get(route) finds an entry whose hash is contentHash
CacheHit(cache, route, contentHash) ==
    route \in DOMAIN cache /\ cache[route].hash = contentHash

\* a store that, for a route already cached, overwrites the hash of the
\* entry in place and keeps the html and etag of the earlier render
CacheSetHashOnly(cache, route, result) ==
    IF route \in DOMAIN cache
    THEN [cache EXCEPT ![route].hash = result.hash]
    ELSE (route :> result) @@ cache

\* a store that drops the entries of the other routes
CacheSetAlone(cache, route, result) == (route :> result)

\* pageCache.set(route, result)
CacheSet(cache, route, result) == (route :> result) @@ cache

\* the file accesses of buildNav
NavAccess(files) ==
    IF existsSync(files, navFile)
    THEN << <<"existsSync", navFile>>, <<"readFileSync", navFile>> >>
    ELSE << <<"existsSync", navFile>> >>

ReadLog(filePath) == << <<"readFileSync", filePath>> >>

\* the end of buildPage after a render: the result is stored and returned
StoreResult(v, route, filePath, files, cache, md, result) ==
    [threw |-> "none", page |-> result, cache |-> CacheSet(cache, route, result),
     rendered |-> TRUE, md |-> md,
     steps |-> <<"read", "hash", "lookup">> \o RenderSteps(v) \o <<"store">>,
     fsLog |-> ReadLog(filePath) \o (IF v = "hardened" THEN NavAccess(files) ELSE <<>>)]

\* buildPage once the source md is read
BuildFrom(v, route, filePath, files, cache, fault, md) ==
    IF CacheHit(cache, route, hashContent(md))
    THEN [threw |-> "none", page |-> cache[route], cache |-> cache, rendered |-> FALSE,
          md |-> md, steps |-> <<"read", "hash", "lookup">>, fsLog |-> ReadLog(filePath)]
    ELSE IF InSeq(RenderSteps(v), fault)
    THEN [threw |-> fault, page |-> NoPage, cache |-> cache, rendered |-> TRUE,
          md |-> md,
          steps |-> <<"read", "hash", "lookup">> \o StepsUpTo(RenderSteps(v), fault),
          fsLog |-> ReadLog(filePath)]
    ELSE StoreResult(v, route, filePath, files, cache, md, RenderPage(v, route, md, files))

\* buildPage(route, filePath) on the file system files with the cache cache;
\* fault names the render step that throws in this call, "none" for no failure
buildPage(v, route, filePath, files, cache, fault) ==
    IF ReadThrows(files, filePath)
    THEN [threw |-> "read", page |-> NoPage, cache |-> cache, rendered |-> FALSE,
          md |-> NoMd, steps |-> <<"read">>, fsLog |-> ReadLog(filePath)]
    ELSE BuildFrom(v, route, filePath, files, cache, fault, FileAt(files, filePath))

(***************************************************************************)
(* The request handler                                                     *)
(***************************************************************************)
Methods == {"GET", "POST", "HEAD", "PUT"}

\* a method check that takes POST in both variants
MethodAllowedGetPost(v, m) == m = "GET" \/ m = "POST"

\* the method check of the handler
MethodAllowed(v, m) == IF v = "hardened" THEN m = "GET" ELSE m = "GET" \/ m = "POST"

TextBody(s) == <<"text", s>>
HtmlBody(h) == <<"html", h>>
EmptyBody == <<"empty">>

\* a falsy result of sanitiseUrl or routeToFile: null or the empty string
Falsy(x) == x = Null \/ x = <<>>

\* the guards on the resolved file without the existence check
FileGuardsNoExistenceCheck(cleanPath, filePath, files) ==
    IF Falsy(filePath)
    THEN [status |-> 403, body |-> TextBody("Forbidden"), route |-> cleanPath,
          file |-> filePath, steps |-> <<"method", "sanitise", "route">>, fsLog |-> <<>>]
    ELSE [status |-> 0, body |-> EmptyBody, route |-> cleanPath,
          file |-> filePath, steps |-> <<"method", "sanitise", "route">>, fsLog |-> <<>>]

\* the guards on the resolved file: 403 when there is none, 404 when it does
\* not exist, status 0 when the request reaches buildPage
FileGuards(cleanPath, filePath, files) ==
    IF Falsy(filePath)
    THEN [status |-> 403, body |-> TextBody("Forbidden"), route |-> cleanPath,
          file |-> filePath, steps |-> <<"method", "sanitise", "route">>, fsLog |-> <<>>]
    ELSE IF ~existsSync(files, filePath)
    THEN [status |-> 404, body |-> TextBody("Not Found"), route |-> cleanPath,
          file |-> filePath, steps |-> <<"method", "sanitise", "route", "exists">>,
          fsLog |-> << <<"existsSync", filePath>> >>]
    ELSE [status |-> 0, body |-> EmptyBody, route |-> cleanPath,
          file |-> filePath, steps |-> <<"method", "sanitise", "route", "exists">>,
          fsLog |-> << <<"existsSync", filePath>> >>]

\* the guard on the canonical path: 400 when there is none
PathGuards(v, cleanPath, files) ==
    IF Falsy(cleanPath)
    THEN [status |-> 400, body |-> TextBody("Bad Request"), route |-> cleanPath,
          file |-> Null, steps |-> <<"method", "sanitise">>, fsLog |-> <<>>]
    ELSE FileGuards(cleanPath, routeToFile(v, cleanPath), files)

\* the guards with the path sanitised before the method is checked
GuardsSanitiseFirst(v, m, u, files) ==
    IF Falsy(sanitiseUrl(u))
    THEN [status |-> 400, body |-> TextBody("Bad Request"), route |-> Null,
          file |-> Null, steps |-> <<"sanitise">>, fsLog |-> <<>>]
    ELSE IF ~MethodAllowed(v, m)
    THEN [status |-> 405, body |-> TextBody("Method Not Allowed"), route |-> Null,
          file |-> Null, steps |-> <<"sanitise", "method">>, fsLog |-> <<>>]
    ELSE PathGuards(v, sanitiseUrl(u), files)

\* the guards before the render, in the order of the handler
Guards(v, m, u, files) ==
    IF ~MethodAllowed(v, m)
    THEN [status |-> 405, body |-> TextBody("Method Not Allowed"), route |-> Null,
          file |-> Null, steps |-> <<"method">>, fsLog |-> <<>>]
    ELSE PathGuards(v, sanitiseUrl(u), files)

\* a try block that starts after the read of the source
CaughtAfterRead(site) == site \in {"marked", "sanitize", "template"}

\* whether the handler's try block encloses the step that throws
Caught(site) == site \in {"read", "marked", "sanitize", "template"}

\* a conditional-GET test that also takes the ETag without its quotes
EtagMatchesUnquoted(v, inm, page) ==
    v = "hardened" /\ (inm = page.etag \/ Quote(inm) = page.etag)

\* the conditional-GET test of the hardened handler
EtagMatches(v, inm, page) == v = "hardened" /\ inm = page.etag

\* status, body and ETag header of a request whose buildPage returned b
Respond(v, inm, b) ==
    IF b.threw # "none"
    THEN [status |-> 500, body |-> TextBody("Internal Server Error"), etag |-> Undefined]
    ELSE IF EtagMatches(v, inm, b.page)
    THEN [status |-> 304, body |-> EmptyBody, etag |-> Undefined]
    ELSE [status |-> 200, body |-> HtmlBody(b.page.html), etag |-> b.page.etag]

(***************************************************************************)
(* The server as a state machine                                           *)
(***************************************************************************)
\* requests handled in one behaviour of Spec, and in one of SpecUrls
MaxRequests == 2
MaxProbes == 1

\* request URLs, as the client sends them
UrlRoot == <<"/">>
UrlX == <<"/", "x">>
UrlXSlash == <<"/", "x", "/">>
UrlXQuery == <<"/", "x", "?", "x", "#", "x">>
UrlMissing == <<"/", "y">>
UrlInside == <<"/", "x", "/", ".", ".", "/", "i", "n", "d", "e", "x">>
UrlInsideEnc ==
    <<"/", "x", "/", "%", "2", "e", "%", "2", "e", "%", "2", "f", "i", "n", "d", "e", "x">>
UrlUp == <<".", ".", "/", "x">>
UrlUpEnc == <<"%", "2", "e", "%", "2", "e", "%", "2", "f", "x">>
UrlUpEnc2 ==
    <<"%", "2", "5", "2", "e", "%", "2", "5", "2", "e", "%", "2", "5", "2", "f", "x">>
UrlBad == <<"/", "%">>
UrlSibling == <<".", ".", "/", "p", "a", "g", "e", "s", "-", "e", "v", "i", "l", "/", "x">>
UrlAlias == <<".", ".", "/", "p", "a", "g", "e", "s", "/", "x">>
UrlEmpty == <<>>
UrlDotName == <<"/", ".", ".", "x">>

ReqUrls ==
    {UrlRoot, UrlX, UrlXSlash, UrlXQuery, UrlMissing, UrlInside, UrlInsideEnc, UrlUp,
     UrlUpEnc, UrlUpEnc2, UrlBad, UrlSibling, UrlAlias, UrlEmpty, UrlDotName}

\* the render steps that may fail in a request
Faults == {NoFault, "marked", "sanitize", "template"}

VARIABLES
    variant,      \* "hardened" or "legacy": which of the two servers runs
    fs,           \* the documents on disk: path -> content
    pageCache,    \* the Map pageCache: route -> [hash, html, etag]
    renderCount,  \* route -> number of times the markdown converter ran for it
    served,       \* route -> what the last successful request for it returned,
                  \* and whether its source has been written or removed since
    pending,      \* the request between its existence check and its read
    resp,         \* the request that has just completed, and its response
    nreq,         \* requests received so far
    alive,        \* whether the process still runs
    probe         \* the input and results of the path functions under test

vars == <<variant, fs, pageCache, renderCount, served, pending, resp, nreq, alive, probe>>

NoPending == [active |-> FALSE]
NoServed ==
    [md |-> NoMd, html |-> <<>>, etag |-> Undefined, renders |-> 0, file |-> Null,
     changed |-> FALSE]
NoProbe == [stage |-> "off"]

NoResp ==
    [status |-> 0, body |-> EmptyBody, etag |-> Undefined, method |-> "", url |-> <<>>,
     inm |-> Undefined, route |-> Null, file |-> Null, steps |-> <<>>, fsLog |-> <<>>,
     md |-> NoMd, rendered |-> FALSE, page |-> NoPage, threw |-> "none",
     prev |-> NoServed]

Init ==
    /\ variant \in {"hardened", "legacy"}
    /\ fs = (IndexFile :> MdHi) @@ (XFile :> Absent) @@ (navFile :> Absent)
    /\ pageCache = EmptyCache
    /\ renderCount = [r \in {} |-> 0]
    /\ served = [r \in {} |-> NoServed]
    /\ pending = NoPending
    /\ resp = NoResp
    /\ nreq = 0
    /\ alive = TRUE
    /\ probe = NoProbe

\* the If-None-Match headers a client may send with URL u: none, the ETag it
\* was last served for that route, or that ETag without its quotes
KnownEtags(r) == IF r \in DOMAIN served THEN {served[r].etag} \ {Undefined} ELSE {}

WithUnquoted(known) == {Undefined} \cup known \cup {e[2] : e \in known}

InmChoices(u) == WithUnquoted(KnownEtags(sanitiseUrl(u)))

\* the handler's guards gave g: the response is written, or the request goes
\* on to buildPage
Guarded(m, u, inm, g) ==
    IF g.status # 0
    THEN /\ resp' = [status |-> g.status, body |-> g.body, etag |-> Undefined,
                     method |-> m, url |-> u, inm |-> inm, route |-> g.route,
                     file |-> g.file, steps |-> g.steps, fsLog |-> g.fsLog,
                     md |-> NoMd, rendered |-> FALSE, page |-> NoPage,
                     threw |-> "none", prev |-> NoServed]
         /\ pending' = pending
    ELSE /\ pending' = [active |-> TRUE, method |-> m, url |-> u, inm |-> inm,
                        route |-> g.route, file |-> g.file, steps |-> g.steps,
                        fsLog |-> g.fsLog]
         /\ resp' = resp

\* a request arrives: the handler runs up to the existence check
Arrive(m, u, inm) ==
    /\ alive
    /\ ~pending.active
    /\ nreq' = nreq + 1
    /\ Guarded(m, u, inm, Guards(variant, m, u, fs))
    /\ UNCHANGED <<variant, fs, pageCache, renderCount, served, alive>>

Receive(m, u, inm) == Arrive(m, u, inm) /\ UNCHANGED probe

Bump(count, route) ==
    (route :> (IF route \in DOMAIN count THEN count[route] + 1 ELSE 1)) @@ count

\* buildPage returned or threw b, and r is the response the handler writes;
\* an exception outside the try block ends the process
Completed(b, r, crash) ==
    /\ pageCache' = b.cache
    /\ renderCount' = IF b.rendered THEN Bump(renderCount, pending.route) ELSE renderCount
    /\ alive' = ~crash
    /\ resp' = [status |-> IF crash THEN -1 ELSE r.status,
                body |-> IF crash THEN EmptyBody ELSE r.body,
                etag |-> IF crash THEN Undefined ELSE r.etag,
                method |-> pending.method, url |-> pending.url,
                inm |-> pending.inm, route |-> pending.route,
                file |-> pending.file, steps |-> pending.steps \o b.steps,
                fsLog |-> pending.fsLog \o b.fsLog, md |-> b.md,
                rendered |-> b.rendered, page |-> b.page, threw |-> b.threw,
                prev |-> IF pending.route \in DOMAIN served
                         THEN served[pending.route] ELSE NoServed]
    /\ served' = IF b.threw = "none"
                 THEN (pending.route :>
                         [md |-> b.md, html |-> b.page.html, etag |-> b.page.etag,
                          renders |-> renderCount'[pending.route],
                          file |-> pending.file, changed |-> FALSE]) @@ served
                 ELSE served

Built(b) == Completed(b, Respond(variant, pending.inm, b), b.threw # "none" /\ ~Caught(b.threw))

\* the handler goes on from the existence check: buildPage and the response
Finish(fault) ==
    /\ pending.active
    /\ Built(buildPage(variant, pending.route, pending.file, fs, pageCache, fault))
    /\ pending' = NoPending
    /\ UNCHANGED <<variant, fs, nreq, probe>>

\* the source at p of the routes served so far has changed
Touched(srv, p) ==
    [r \in DOMAIN srv |-> IF srv[r].file = p THEN [srv[r] EXCEPT !.changed = TRUE] ELSE srv[r]]

\* the site's owner writes a page or the navigation document
WriteFile(p, d) ==
    /\ fs[p] # d
    /\ fs[p] # IsDir
    /\ fs' = [fs EXCEPT ![p] = d]
    /\ resp' = NoResp
    /\ served' = Touched(served, p)
    /\ UNCHANGED <<variant, pageCache, renderCount, pending, nreq, alive, probe>>

\* a page, the navigation document or a directory is removed
DeleteFile(p) ==
    /\ fs[p] # Absent
    /\ fs' = [fs EXCEPT ![p] = Absent]
    /\ resp' = NoResp
    /\ served' = Touched(served, p)
    /\ UNCHANGED <<variant, pageCache, renderCount, pending, nreq, alive, probe>>

\* a directory is created where a page would be
MakeDir(p) ==
    /\ fs[p] = Absent
    /\ fs' = [fs EXCEPT ![p] = IsDir]
    /\ resp' = NoResp
    /\ served' = Touched(served, p)
    /\ UNCHANGED <<variant, pageCache, renderCount, pending, nreq, alive, probe>>

\* the URLs of Spec: two routes, two spellings of one of them, and an
\* undecodable URL
CacheUrls == {UrlRoot, UrlX, UrlXSlash, UrlBad}

\* requests and changes of the documents, over the URLs of CacheUrls
Next ==
    \/ /\ nreq < MaxRequests
       /\ \E m \in Methods, u \in CacheUrls : \E inm \in InmChoices(u) : Receive(m, u, inm)
    \/ Finish(NoFault)
    \/ \E fault \in Faults \ {NoFault} : Finish(fault)
    \/ \E d \in Docs : WriteFile(IndexFile, d)
    \/ WriteFile(XFile, MdHi)
    \/ WriteFile(navFile, MdNav)
    \/ \E p \in PageFiles \cup {navFile} : DeleteFile(p)
    \/ MakeDir(XFile)

Spec == Init /\ [][Next]_vars

\* single requests over every URL of ReqUrls, with documents that come and go
NextUrls ==
    \/ /\ nreq < MaxProbes
       /\ \E m \in Methods, u \in ReqUrls : \E inm \in InmChoices(u) : Receive(m, u, inm)
    \/ Finish(NoFault)
    \/ \E fault \in Faults \ {NoFault} : Finish(fault)
    \/ \E p \in PageFiles : WriteFile(p, MdHi)
    \/ \E p \in PageFiles : DeleteFile(p)
    \/ MakeDir(XFile)

SpecUrls == Init /\ [][NextUrls]_vars

(***************************************************************************)
(* The path functions on their own                                         *)
(***************************************************************************)
\* raw URLs are built from at most MaxTokens of these pieces
MaxTokens == 3

PathTokens ==
    { <<"/">>,
      <<".", ".", "/">>,
      <<".">>,
      <<"x">>,
      <<"p", "a", "g", "e", "s", "/">>,
      <<"p", "a", "g", "e", "s", "-", "e", "v", "i", "l", "/">>,
      <<"%", "2", "e", "%", "2", "e", "%", "2", "f">>,
      <<"%", "2", "5", "2", "e", "%", "2", "5", "2", "e", "%", "2", "5", "2", "f">>,
      <<"%", "2", "5">>,
      <<"%">>,
      <<"?">>,
      <<"#">>,
      <<"%", "3", "f">>,
      <<"%", "2", "f">> }

RECURSIVE UrlsUpTo(_)
UrlsUpTo(n) ==
    IF n = 0 THEN {<<>>}
    ELSE UrlsUpTo(n - 1) \cup {u \o t : u \in UrlsUpTo(n - 1), t \in PathTokens}

PathUrls == UrlsUpTo(MaxTokens)

InitPaths ==
    /\ variant \in {"hardened", "legacy"}
    /\ fs = (IndexFile :> MdHi) @@ (XFile :> Absent) @@ (navFile :> Absent)
    /\ pageCache = EmptyCache
    /\ renderCount = [r \in {} |-> 0]
    /\ served = [r \in {} |-> NoServed]
    /\ pending = NoPending
    /\ resp = NoResp
    /\ nreq = 0
    /\ alive = TRUE
    /\ probe \in {[stage |-> "input", url |-> u, clean |-> Null, file |-> Null,
                   again |-> Null] : u \in PathUrls}

\* sanitiseUrl is applied to the raw URL
Sanitise ==
    /\ probe.stage = "input"
    /\ probe' = [probe EXCEPT !.stage = "clean", !.clean = sanitiseUrl(probe.url)]
    /\ UNCHANGED <<variant, fs, pageCache, renderCount, served, pending, resp, nreq, alive>>

\* routeToFile is applied to the canonical path, as the handler does
Route ==
    /\ probe.stage = "clean"
    /\ ~Falsy(probe.clean)
    /\ probe' = [probe EXCEPT !.stage = "routed", !.file = routeToFile(variant, probe.clean)]
    /\ UNCHANGED <<variant, fs, pageCache, renderCount, served, pending, resp, nreq, alive>>

\* sanitiseUrl is applied to its own result
Resanitise ==
    /\ probe.stage = "clean"
    /\ probe.clean # Null
    /\ probe' = [probe EXCEPT !.stage = "twice", !.again = sanitiseUrl(probe.clean)]
    /\ UNCHANGED <<variant, fs, pageCache, renderCount, served, pending, resp, nreq, alive>>

\* the handler answers a GET for the raw URL
Serve ==
    /\ probe.stage = "clean"
    /\ probe' = [probe EXCEPT !.stage = "served"]
    /\ Arrive("GET", probe.url, Undefined)

NextPaths == Sanitise \/ Route \/ Resanitise \/ Serve \/ Finish(NoFault)

SpecPaths == InitPaths /\ [][NextPaths]_vars

(***************************************************************************)
(* Properties                                                              *)
(***************************************************************************)
DotDotSlash == <<".", ".", "/">>
EncodedOnce == <<"%", "2", "e", "%", "2", "e", "%", "2", "f">>
EncodedTwice ==
    <<"%", "2", "5", "2", "e", "%", "2", "5", "2", "e", "%", "2", "5", "2", "f">>

\* the raw URL holds a "../", plain or percent-encoded once or twice
Traversal(u) == HasSub(u, DotDotSlash) \/ HasSub(u, EncodedOnce) \/ HasSub(u, EncodedTwice)

\* every document access of a log (every access but buildNav's, whose file is
\* the fixed nav.md next to the content root) is inside the content root
DocAccessInside(log) ==
    \A i \in 1..Len(log) : log[i][2] # navFile => IsDescendant(pagesDir, log[i][2])

\* a request has just been answered
Answered == resp.status # 0

\* buildPage returned in the request just answered
Success == resp.status \in {200, 304}

\* C1: in the hardened variant routeToFile, applied to a non-null result of
\* sanitiseUrl, returns null or an absolute path below pagesDir, and every
\* path the handler and buildPage hand to existsSync / readFileSync for the
\* requested document is below pagesDir.
C1_RouteStaysInRoot ==
    variant = "hardened" =>
        /\ probe.stage = "routed" =>
               \/ probe.file = Null
               \/ isAbsolute(probe.file) /\ IsDescendant(pagesDir, probe.file)
        /\ DocAccessInside(resp.fsLog)
        /\ pending.active => DocAccessInside(pending.fsLog)

\* an encoded traversal whose candidate leaves the content root is refused
C1_Witness ==
    /\ variant = "hardened"
    /\ probe.stage = "routed"
    /\ HasSub(probe.url, EncodedOnce)
    /\ ~IsDescendant(pagesDir, Candidate(probe.clean))
    /\ probe.file = Null

\* every document access of a log is to a path that begins with the string
\* pagesDir
DocAccessPrefixed(log) ==
    \A i \in 1..Len(log) : log[i][2] # navFile => StartsWith(log[i][2], pagesDir)

C3_CacheHashIsCurrent ==
    Success =>
        /\ resp.route \in DOMAIN pageCache
        /\ pageCache[resp.route].hash = hashContent(resp.md)
        /\ resp.md = FileAt(fs, resp.file)

\* the source was modified between two successful requests for the route
C3_Witness ==
    /\ Success
    /\ resp.prev # NoServed
    /\ resp.prev.md # resp.md
    /\ pageCache[resp.route].hash = hashContent(resp.md)

\* C4: when the source of a route has not been written or removed between two
\* successful requests, the second returns the HTML and the ETag of the first
\* and does not run the converter, the sanitizer or the template again: the
\* route's render count stays at its value after the first request.
C4_UnchangedSourceIsCacheHit ==
    (Success /\ resp.prev # NoServed /\ ~resp.prev.changed) =>
        /\ resp.md = resp.prev.md
        /\ resp.page.html = resp.prev.html
        /\ resp.page.etag = resp.prev.etag
        /\ resp.status = 200 => resp.body = HtmlBody(resp.prev.html) /\ resp.etag = resp.prev.etag
        /\ ~resp.rendered
        /\ ~InSeq(resp.steps, "marked") /\ ~InSeq(resp.steps, "template")
        /\ renderCount[resp.route] = resp.prev.renders

\* a second successful request for an unchanged source
C4_Witness ==
    /\ resp.status = 200
    /\ resp.prev # NoServed
    /\ ~resp.prev.changed
    /\ resp.prev.md = resp.md
    /\ renderCount[resp.route] = 1

\* C5, as claimed: when the bytes of the source differ at two successful
\* requests for a route, the second returns other HTML and, in the hardened
\* variant, another ETag than the first.
C5_ModifiedSourceChangesHtml ==
    (Success /\ resp.prev # NoServed /\ resp.prev.md # resp.md) =>
        /\ resp.page.html # resp.prev.html
        /\ variant = "hardened" => resp.page.etag # resp.prev.etag

\* C5, amended: when the bytes of the source differ at two successful requests
\* for a route, the second renders the page again from the new bytes: the
\* converter runs, the cache entry takes the new hash, and the HTML and ETag
\* returned are those of a fresh render.  In the hardened variant the ETag
\* differs from the first one exactly when the HTML does; sources that render
\* to the same HTML ("# Hi" with and without a final newline) give the same
\* HTML and ETag.
C5_ModifiedSourceIsRerendered ==
    (Success /\ resp.prev # NoServed /\ resp.prev.md # resp.md) =>
        /\ resp.rendered
        /\ renderCount[resp.route] > resp.prev.renders
        /\ pageCache[resp.route] = resp.page
        /\ resp.page.hash = hashContent(resp.md)
        /\ resp.page.html =
               renderTemplate(variant, DocName(resp.route), HtmlOf(variant, resp.md), fs)
        /\ variant = "hardened" =>
               /\ resp.page.etag = Quote(hashContent(resp.page.html))
               /\ (resp.page.etag = resp.prev.etag) <=> (resp.page.html = resp.prev.html)

\* a modified source whose HTML and ETag differ from the first response's
C5_Witness ==
    /\ variant = "hardened"
    /\ resp.status = 200
    /\ resp.prev # NoServed
    /\ resp.prev.md # resp.md
    /\ resp.page.html # resp.prev.html
    /\ resp.page.etag # resp.prev.etag

\* C6: in the hardened variant a GET that completed buildPage is answered 304
\* with an empty body exactly when it carries an If-None-Match header equal
\* to the quoted ETag of the page as buildPage left it; otherwise it is
\* answered 200 with the page's HTML and its current ETag.
C6_ConditionalGet ==
    (variant = "hardened" /\ Success) =>
        /\ resp.page = pageCache[resp.route]
        /\ resp.page.etag = Quote(hashContent(resp.page.html))
        /\ resp.status = 304 <=> (resp.inm # Undefined /\ resp.inm = resp.page.etag)
        /\ resp.status = 304 => resp.body = EmptyBody
        /\ resp.status = 200 =>
               /\ resp.body = HtmlBody(resp.page.html)
               /\ resp.etag = resp.page.etag

\* the ETag served before the source changed no longer matches
C6_Witness ==
    /\ variant = "hardened"
    /\ resp.status = 200
    /\ resp.prev # NoServed
    /\ resp.inm = resp.prev.etag
    /\ resp.inm # resp.page.etag

\* the methods a variant accepts
Accepted == IF variant = "hardened" THEN {"GET"} ELSE {"GET", "POST"}

GuardOrder == <<"method", "sanitise", "route", "exists">>

\* C7: every request ends in one status of 405, 400, 403, 404, 500, 304, 200,
\* and the guards run in the order method, path, route, existence, render,
\* conditional GET: a guard that fails ends the request before the later
\* ones run, so a method that is not accepted gets 405 whatever the URL, an
\* undecodable URL gets 400 without a file access or a cache lookup, and an
\* escaping path gets 403 without an existence check.
C7_GuardsInOrder ==
    Answered =>
        /\ resp.status \in {405, 400, 403, 404, 500, 304, 200}
        /\ resp.method \notin Accepted <=> resp.status = 405
        /\ (resp.method \in Accepted /\ sanitiseUrl(resp.url) = Null) <=> resp.status = 400
        /\ resp.status = 405 => resp.steps = SubSeq(GuardOrder, 1, 1) /\ resp.fsLog = <<>>
        /\ resp.status = 400 => resp.steps = SubSeq(GuardOrder, 1, 2) /\ resp.fsLog = <<>>
        /\ resp.status = 403 => resp.steps = SubSeq(GuardOrder, 1, 3) /\ resp.fsLog = <<>>
        /\ resp.status = 404 =>
               /\ resp.steps = GuardOrder
               /\ resp.fsLog = << <<"existsSync", resp.file>> >>
        /\ resp.status \in {500, 304, 200} =>
               /\ SubSeq(resp.steps, 1, 5) = GuardOrder \o <<"read">>
               /\ resp.fsLog[1] = <<"existsSync", resp.file>>
        /\ resp.status = 304 => variant = "hardened"

\* a request with a method that is not accepted and an undecodable URL
C7_Witness ==
    /\ resp.status = 405
    /\ resp.url = UrlBad
    /\ resp.method \notin Accepted

\* C8: the hardened variant accepts GET only: any other method is answered
\* 405 with the body "Method Not Allowed", whatever the URL; the legacy
\* variant handles POST as it handles GET and answers 405 to every other
\* method.
C8_MethodCheck ==
    Answered =>
        /\ variant = "hardened" => (resp.method # "GET" <=> resp.status = 405)
        /\ variant = "legacy" => (resp.method \notin {"GET", "POST"} <=> resp.status = 405)
        /\ resp.status = 405 =>
               /\ resp.body = TextBody("Method Not Allowed")
               /\ resp.steps = <<"method">>
        /\ (variant = "legacy" /\ resp.method = "POST") =>
               IF resp.status \in {400, 403, 404}
               THEN resp.status = Guards("legacy", "GET", resp.url, fs).status
               ELSE /\ resp.status \in {200, 500}
                    /\ sanitiseUrl(resp.url) = resp.route
                    /\ routeToFile("legacy", resp.route) = resp.file

\* a POST with a servable URL is refused by the hardened variant
C8_Witness ==
    /\ variant = "hardened"
    /\ resp.method = "POST"
    /\ resp.url = UrlRoot
    /\ resp.status = 405
    /\ resp.body = TextBody("Method Not Allowed")

\* C9: a failure raised in buildPage (reading, converting, sanitising,
\* templating) is answered 500 with the body "Internal Server Error", leaves
\* pageCache as it was, and does not end the process, which goes on accepting
\* requests.
C9_FailureIs500 ==
    /\ [](resp.threw # "none" =>
              /\ resp.status = 500
              /\ resp.body = TextBody("Internal Server Error")
              /\ resp.etag = Undefined)
    /\ []alive
    /\ [][(pending.active /\ resp'.threw # "none") =>
              /\ pageCache' = pageCache
              /\ ~pending'.active]_vars

\* a read that fails after an earlier page was cached
C9_Witness ==
    /\ resp.status = 500
    /\ resp.threw = "read"
    /\ pageCache # EmptyCache
    /\ alive

\* a canonical path on which sanitiseUrl changes nothing: no "%", "?" or "#"
\* and no "." or ".." segment
HasDotSegment(segs) == \E i \in 1..Len(segs) : segs[i] = <<".">> \/ segs[i] = DotDot

Stable(r) ==
    /\ ~HasChar(r, "%") /\ ~HasChar(r, "?") /\ ~HasChar(r, "#")
    /\ ~HasDotSegment(SplitSlash(r))

\* C10, as claimed: for every p with a non-null sanitiseUrl(p),
\* sanitiseUrl(sanitiseUrl(p)) is non-null and equals sanitiseUrl(p).
C10_Idempotent ==
    probe.stage = "twice" => probe.again # Null /\ probe.again = probe.clean

\* C10, amended: for every p with a non-null sanitiseUrl(p),
\* sanitiseUrl(sanitiseUrl(p)) equals sanitiseUrl(p) exactly when
\* sanitiseUrl(p) holds no "%", "?" or "#" and no "." or ".." segment;
\* otherwise the second pass decodes, cuts or resolves it once more, or
\* returns null.
C10_IdempotentWhenStable ==
    probe.stage = "twice" => (probe.again = probe.clean <=> Stable(probe.clean))

\* a percent-encoded input whose result the second pass leaves alone
C10_Witness ==
    /\ probe.stage = "twice"
    /\ HasChar(probe.url, "%")
    /\ probe.again = probe.clean
    /\ probe.clean # <<"/">>

\* the part of a raw URL before its first "?" and its first "#"
PathPart(u) == SplitFirst(SplitFirst(u, "?"), "#")

\* C11: sanitiseUrl maps the empty input, and every input whose path part
\* (before the first "?" or "#") is empty, to the root route "/".
C11_EmptyIsRoot ==
    (probe.stage # "input" /\ PathPart(probe.url) = <<>>) => probe.clean = <<"/">>

\* s without its last character
DropLast(s) == SubSeq(s, 1, Len(s) - 1)

\* C12: every non-null result of sanitiseUrl starts with "/", is not empty and
\* does not end with "/" unless it is "/" itself, so a path with and without
\* its trailing "/" gives the same route; the result is null exactly when the
\* percent-decoding of the path part fails, and a GET is answered 400 exactly
\* then.
C12_CanonicalRoute ==
    probe.stage # "input" =>
        /\ probe.clean = Null <=> decodeURIComponent(PathPart(probe.url)) = URIError
        /\ probe.clean # Null =>
               /\ probe.clean # <<>>
               /\ StartsWith(probe.clean, <<"/">>)
               /\ EndsWith(probe.clean, <<"/">>) => probe.clean = <<"/">>
        /\ (EndsWith(PathPart(probe.url), <<"/">>) /\ PathPart(probe.url) # <<"/">>)
               => probe.clean = sanitiseUrl(DropLast(PathPart(probe.url)))
        /\ (probe.stage = "served" /\ Answered)
               => (resp.status = 400 <=> probe.clean = Null)

\* a path with a trailing "/" whose route is not the root
C12_Witness ==
    /\ probe.stage = "clean"
    /\ EndsWith(PathPart(probe.url), <<"/">>)
    /\ probe.clean # Null
    /\ probe.clean # <<"/">>
    /\ ~EndsWith(probe.clean, <<"/">>)

\* C13: in the legacy variant routeToFile returns null for every canonical
\* path whose joined file path is not inside the content root, a sibling
\* directory such as pages-evil included, and no request reads a document
\* outside the content root.
C13_LegacyStaysInRoot ==
    variant = "legacy" =>
        /\ (probe.stage = "routed"
               /\ ~IsDescendant(pagesDir, join(pagesDir, DocName(probe.clean) \o DotMd)))
               => probe.file = Null
        /\ DocAccessInside(resp.fsLog)

\* the source a stored hash is the hash of
HashedSource(h) == h[2]

\* entry e of route r is whole: its html is the rendering, at some state of
\* nav.md, of the source its hash names, and in the hardened variant its etag
\* is the quoted hash of that html
EntryConsistent(v, r, e) ==
    /\ e.hash # Undefined
    /\ e.html # <<>>
    /\ \E n \in {Absent, MdNav} :
           e.html = renderTemplate(v, DocName(r), HtmlOf(v, HashedSource(e.hash)),
                                   (navFile :> n))
    /\ v = "hardened" =>
           /\ e.etag # Undefined
           /\ e.etag = Quote(hashContent(e.html))

\* C14: in every state, between requests and while a request waits between
\* its existence check and its read, every entry of pageCache is whole: it
\* has its hash and its html (and, in the hardened variant, its etag), the
\* html is the templated (hardened: sanitised) rendering of the source whose
\* hash the entry holds, and the etag is the quoted hash of the entry's html.
C14_EntriesConsistent ==
    \A r \in DOMAIN pageCache : EntryConsistent(variant, r, pageCache[r])

\* a request waits for its read while the cache holds the entry of an earlier
\* version of its source
C14_Witness ==
    /\ variant = "hardened"
    /\ pending.active
    /\ pending.route \in DOMAIN pageCache
    /\ fs[pending.file] \in Docs
    /\ pageCache[pending.route].hash # hashContent(fs[pending.file])

\* the step changes nothing of the cache but the entry of route
OnlyEntryOf(route) ==
    /\ DOMAIN pageCache' = DOMAIN pageCache \cup {route}
    /\ \A r \in DOMAIN pageCache : r # route => pageCache'[r] = pageCache[r]

\* C15: pageCache changes only in a step in which a request completes
\* buildPage after finding no entry, or an entry with another hash, for its
\* route; the step replaces the whole entry of that route by the page just
\* rendered and leaves every other entry alone.  A step that answers 405, 400,
\* 403, 404 or 500, a cache hit, and a change of the files leave the cache as
\* it is, and no step removes an entry.
C15_CacheFrame ==
    [][/\ DOMAIN pageCache \subseteq DOMAIN pageCache'
       /\ pageCache' # pageCache =>
              /\ pending.active
              /\ resp'.status \in {200, 304}
              /\ resp'.rendered
              /\ ~CacheHit(pageCache, pending.route, hashContent(resp'.md))
              /\ OnlyEntryOf(pending.route)
              /\ pageCache'[pending.route] = resp'.page
              /\ resp'.page = RenderPage(variant, pending.route, resp'.md, fs)
       /\ (pending.active /\ resp'.status \in {200, 304} /\ ~resp'.rendered)
              => pageCache' = pageCache
       /\ resp'.status \in {405, 400, 403, 404, 500} => pageCache' = pageCache
       /\ fs' # fs => pageCache' = pageCache]_vars

\* the entry of a page outlives its source: the file is gone, the request for
\* it is answered 404, and the cache still holds the entry
C15_Witness ==
    /\ resp.status = 404
    /\ resp.route \in DOMAIN pageCache
    /\ fs[resp.file] = Absent

\* C16: no canonical path handed to routeToFile holds a "." or ".." segment:
\* every non-null result of sanitiseUrl, for a raw URL plain or encoded,
\* absolute or not, has its dot segments resolved.
C16_NoDotSegments ==
    (probe.stage # "input" /\ probe.clean # Null) => ~HasDotSegment(SplitSlash(probe.clean))

\* what a render of the source just read would give with the files as they are
FreshHtml == renderTemplate(variant, DocName(resp.route), HtmlOf(variant, resp.md), fs)

\* the part of a page that stands where the template has {{nav}}
NavBlock(html) == html[SetMin({i \in 1..Len(template) : template[i] = Tok("{{nav}}")})]

\* C17, as claimed: the HTML of every successful request, cache hit or not, is
\* what a fresh render would give from the current source and the current
\* nav.md.
C17_ServedPageIsFresh ==
    Success => resp.page.html = FreshHtml

\* C17, amended: a page rendered in the request (cache miss) carries the
\* navigation block of the current nav.md; a cache hit returns the HTML stored
\* at the route's last render, with the navigation block as it was then, so in
\* the hardened variant it equals a fresh render exactly when nav.md still
\* gives the same block.  A change of nav.md shows in a route's pages only
\* after the route's source changes too.  The legacy pages hold no navigation
\* block.
C17_CacheHitKeepsNav ==
    Success =>
        /\ resp.rendered => resp.page.html = FreshHtml
        /\ ~resp.rendered =>
               /\ resp.prev # NoServed
               /\ resp.page.html = resp.prev.html
               /\ variant = "hardened" =>
                      (resp.page.html = FreshHtml
                           <=> NavBlock(resp.page.html) = Text(buildNav(fs)))
               /\ variant = "legacy" => resp.page.html = FreshHtml

\* a cache hit after nav.md was written: the page served has the old block
C17_Witness ==
    /\ variant = "hardened"
    /\ resp.status = 200
    /\ ~resp.rendered
    /\ buildNav(fs) # ""
    /\ NavBlock(resp.page.html) = Text("")

\* C18: in the hardened variant, for every canonical path whose candidate file
\* is inside the content root (a document name that begins with "..", and
\* the canonical path "/.", included), routeToFile returns the candidate and
\* the request is not answered 403.
C18_ForbiddenOnlyOutside ==
    (variant = "hardened" /\ probe.stage \in {"routed", "served"}
         /\ ~Falsy(probe.clean) /\ IsDescendant(pagesDir, Candidate(probe.clean)))
        => /\ probe.stage = "routed" => probe.file = Candidate(probe.clean)
           /\ (probe.stage = "served" /\ Answered) => resp.status # 403

\* the request just answered resolved to a file that cannot be read: it is
\* absent or a directory
Unreadable == Answered /\ resp.file # Null /\ ReadThrows(fs, resp.file)

\* C19, as claimed: a request whose source document cannot be read as a file
\* (absent, removed after the existence check, or a directory) is answered
\* 404.
C19_UnreadableIs404 ==
    Unreadable => resp.status = 404

\* C19, amended: a request whose source document is absent at the existence
\* check is answered 404 and reads nothing; a request whose path passes the
\* existence check but cannot be read (the file was removed after the check, or
\* the path is a directory) is answered 500 with the generic body.
C19_UnreadableIs404Or500 ==
    /\ [](Unreadable =>
              /\ resp.status \in {404, 500}
              /\ FileAt(fs, resp.file) = IsDir => resp.status = 500
              /\ resp.status = 500 =>
                     /\ resp.threw = "read"
                     /\ resp.body = TextBody("Internal Server Error")
              /\ resp.status = 404 =>
                     /\ resp.body = TextBody("Not Found")
                     /\ resp.fsLog = << <<"existsSync", resp.file>> >>)
    /\ [][/\ (nreq' # nreq /\ pending'.active) => existsSync(fs, pending'.file)
          /\ (nreq' # nreq /\ ~pending'.active /\ resp'.file # Null)
                 => resp'.status = 404 /\ ~existsSync(fs, resp'.file)
          /\ (pending.active /\ ~pending'.active /\ ReadThrows(fs, pending.file))
                 => resp'.status = 500]_vars

\* the file was removed between the existence check and the read
C19_Witness ==
    /\ resp.status = 500
    /\ resp.threw = "read"
    /\ fs[resp.file] = Absent
    /\ resp.fsLog[1] = <<"existsSync", resp.file>>

(***************************************************************************)
(* renderTemplate on its own                                               *)
(***************************************************************************)
\* templates are built from at most MaxParts parts
MaxParts == 3

Tokens ==
    {"{{site}}", "{{author}}", "{{copydate}}", "{{title}}", "{{nav}}", "{{content}}"}

TemplateParts == {Lit("<p>")} \cup {Tok(t) : t \in Tokens}

RECURSIVE TemplatesUpTo(_)
TemplatesUpTo(n) ==
    IF n = 0 THEN {<<>>}
    ELSE TemplatesUpTo(n - 1)
             \cup {Append(t, p) : t \in TemplatesUpTo(n - 1), p \in TemplateParts}

\* the titles buildPage derives from the routes of these URLs
UrlDollar == <<"/", "$", "&">>
Titles == {DocName(sanitiseUrl(u)) : u \in {UrlRoot, UrlX, UrlDollar}}

\* the bodies and navigation blocks the converter and the sanitizer give
Contents == {sanitizeHtml(marked(md)) : md \in {MdHi, MdDollar}}
Navs == {"", sanitizeHtml(marked(MdNav))}

InitTemplate ==
    /\ variant \in {"hardened", "legacy"}
    /\ fs = (IndexFile :> MdHi) @@ (XFile :> Absent) @@ (navFile :> Absent)
    /\ pageCache = EmptyCache
    /\ renderCount = [r \in {} |-> 0]
    /\ served = [r \in {} |-> NoServed]
    /\ pending = NoPending
    /\ resp = NoResp
    /\ nreq = 0
    /\ alive = TRUE
    /\ probe \in {[stage |-> "template", tpl |-> t, title |-> ti, content |-> c,
                   nav |-> n, out |-> <<>>] :
                      t \in TemplatesUpTo(MaxParts), ti \in Titles, c \in Contents,
                      n \in Navs}

\* renderTemplate(title, content) on the template of the probe
Render ==
    /\ probe.stage = "template"
    /\ probe' = [probe EXCEPT
                    !.stage = "rendered",
                    !.out = IF variant = "hardened"
                            THEN RenderHardened(probe.tpl, probe.title, probe.content,
                                                probe.nav)
                            ELSE RenderLegacy(probe.tpl, probe.title, probe.content)]
    /\ UNCHANGED <<variant, fs, pageCache, renderCount, served, pending, resp, nreq, alive>>

NextTemplate == Render

SpecTemplate == InitTemplate /\ [][NextTemplate]_vars

\* the page holds the text of a placeholder token
HoldsToken(out) == \E i \in 1..Len(out) : out[i][1] = "tok"

\* C20: in the hardened variant the page renderTemplate returns holds no
\* placeholder token of the template, however often a token appears in it.
C20_NoTokenLeft ==
    (variant = "hardened" /\ probe.stage = "rendered") => ~HoldsToken(probe.out)

====
